---- MODULE Spec2Model ----
(***************************************************************************)
(* Tunnel session protocol and chunked-transfer state machine of the       *)
(* cloud-to-premise file download system.                                  *)
(*                                                                         *)
(*   coordinator: server/server.js, server/server-mtls.js,                 *)
(*                server/connectionManager.js, DownloadManager             *)
(*   agent:       the client emitter (connect / attemptReconnect /         *)
(*                handleDownloadRequest)                                   *)
(*                                                                         *)
(* The specifications share the variables:                                 *)
(*   SpecTransfer  the DownloadManager driven by tunnel messages           *)
(*   SpecRegistry  the tunnels and the ConnectionManager                   *)
(*   SpecTrigger   SpecRegistry together with POST /api/download           *)
(*   SpecSession   transfers while connections are refused and tunnels close *)
(*   SpecOutage    SpecTrigger with a redis server that becomes unreachable *)
(*   SpecAgent     the agent's reconnect loop and chunk emitter            *)
(***************************************************************************)
EXTENDS Integers, Sequences, FiniteSets, TLC

VARIABLES
    \* ---- coordinator: connections and ConnectionManager
    mtls,          \* TRUE: server-mtls.js, FALSE: server.js
    sock,          \* per connection: "none" | "open" | "closing" | "closed" | "refused"
    cert,          \* per connection: CN of the verified peer certificate (mTLS)
    clientId,      \* per connection: the `let clientId` closure variable
    connections,   \* ConnectionManager.connections: identity -> connection (0: absent)
    hash,          \* redis hash connected_clients: identity -> writer (0: absent)
    statusKey,     \* redis key client:<id>:status exists
    redisUp,       \* the redis server can be reached
    cmQueue,       \* continuations awaiting ConnectionManager redis replies (FIFO)
    nRegs,         \* number of register frames received so far
    acks,          \* per connection: identities acknowledged with 'registered'
    errsSent,      \* per connection: number of 'error' frames sent by the coordinator
    \* ---- coordinator: HTTP trigger
    dmQueue,       \* continuations awaiting DownloadManager redis replies (FIFO)
    responses,     \* finished POST /api/download requests
    requests,      \* download_request frames sent: <<connection, downloadId>>
    nTrigs,        \* number of POST /api/download requests so far
    \* ---- coordinator: DownloadManager
    downloads,     \* DownloadManager.downloads: downloadId -> record
    persisted,     \* redis hash download:<id>, field status
    files,         \* downloads directory: path -> content
    writes,        \* fs.writeFile calls in flight
    \* ---- history of the transfer messages (not program state)
    hist,          \* per download: what has arrived and what was assembled
    nMsgs,         \* number of transfer messages received so far
    last,          \* the step that produced this state
    \* ---- agent
    agent          \* the agent process
vars == <<mtls, redisUp, sock, cert, clientId, connections, hash, statusKey, cmQueue, nRegs,
          acks, errsSent, dmQueue, responses, requests, nTrigs, downloads, persisted, files,
          writes, hist, nMsgs, last, agent>>

regVars == <<mtls, redisUp, sock, cert, clientId, connections, hash, statusKey, cmQueue,
             nRegs, acks, errsSent>>
trigVars == <<dmQueue, responses, requests, nTrigs>>
dlVars == <<downloads, persisted, files, writes, hist, nMsgs>>

(***************************************************************************)
(* Bounds                                                                  *)
(***************************************************************************)
MaxDownloads == 2      \* transfer ids the uuid generator can hand out
MaxChunkIdx == 1       \* chunk indices 0..MaxChunkIdx appear on the wire
MaxTotalChunks == 3    \* totalChunks 0..MaxTotalChunks appear on the wire
MaxMsgs == 3           \* transfer messages received by the coordinator
MaxConns == 2          \* tunnels accepted by the coordinator
MaxRegs == 2           \* register frames received by the coordinator
MaxTriggers == 1       \* POST /api/download requests

Ids == {"site-1", "site-2"}
NoId == "null"
Conns == 1..MaxConns
DownloadIds == 1..MaxDownloads
ChunkIdx == 0..MaxChunkIdx
TotalChunkValues == 0..MaxTotalChunks
FileNames == {"sample-file.txt"}
\* the bytes the agent's file holds at chunk i (one, two and three bytes, then
\* repeating: every padding of base64 occurs)
FileChunk(i) ==
    IF i % 3 = 0 THEN <<77>> ELSE IF i % 3 = 1 THEN <<200, 9>> ELSE <<1, 130, 255>>

(***************************************************************************)
(* JavaScript values                                                       *)
(***************************************************************************)
Undefined == -1                 \* a numeric field that was never assigned
NaN == -2                       \* Math.round(x / undefined * 100)
Infinity == -3                  \* Math.round(x / 0 * 100) with x > 0
Hole == <<-1>>                  \* an array slot that was never assigned
UndefinedName == "undefined"    \* `${download.fileName}` before any metadata
NoData == <<-2>>                \* no content

Max(a, b) == IF a >= b THEN a ELSE b
Min(a, b) == IF a <= b THEN a ELSE b

(***************************************************************************)
(* base64, as chunk.toString('base64') and Buffer.from(data, 'base64')     *)
(* compute it.  A string is a sequence of sextets 0..63; 64 is '='.        *)
(***************************************************************************)
Pad == 64

RECURSIVE B64Encode(_)
B64Encode(b) ==
    IF Len(b) = 0 THEN <<>>
    ELSE IF Len(b) = 1 THEN
        <<b[1] \div 4, (b[1] % 4) * 16, Pad, Pad>>
    ELSE IF Len(b) = 2 THEN
        <<b[1] \div 4, (b[1] % 4) * 16 + b[2] \div 16, (b[2] % 16) * 4, Pad>>
    ELSE
        <<b[1] \div 4, (b[1] % 4) * 16 + b[2] \div 16,
          (b[2] % 16) * 4 + b[3] \div 64, b[3] % 64>>
        \o B64Encode(SubSeq(b, 4, Len(b)))

\* the sextets before the first '='
RECURSIVE B64Body(_)
B64Body(s) ==
    IF Len(s) = 0 \/ s[1] = Pad THEN <<>>
    ELSE <<s[1]>> \o B64Body(Tail(s))

RECURSIVE B64Bytes(_)
B64Bytes(s) ==
    IF Len(s) < 2 THEN <<>>
    ELSE IF Len(s) = 2 THEN
        <<s[1] * 4 + s[2] \div 16>>
    ELSE IF Len(s) = 3 THEN
        <<s[1] * 4 + s[2] \div 16, (s[2] % 16) * 16 + s[3] \div 4>>
    ELSE
        <<s[1] * 4 + s[2] \div 16, (s[2] % 16) * 16 + s[3] \div 4,
          (s[3] % 4) * 64 + s[4]>>
        \o B64Bytes(SubSeq(s, 5, Len(s)))

B64Decode(s) == B64Bytes(B64Body(s))

\* the data field of the file_chunk frame for chunk i
WireData(i) == B64Encode(FileChunk(i))

(***************************************************************************)
(* DownloadManager: records                                                *)
(***************************************************************************)
NoChunks == [i \in ChunkIdx |-> Hole]

NoDownload ==
    [clientId |-> NoId, status |-> "none", fileName |-> UndefinedName,
     totalChunks |-> Undefined, receivedChunks |-> Undefined,
     chunks |-> NoChunks, hasChunks |-> FALSE, progress |-> 0,
     filePath |-> <<>>, error |-> "none"]

NoHist ==
    [meta |-> 0, chunk |-> 0, flagged |-> 0, err |-> 0,
     chunkBeforeMeta |-> FALSE, lastFlag |-> FALSE, outOfOrder |-> FALSE,
     sent |-> [i \in ChunkIdx |-> NoData],
     assembled |-> 0, wrote |-> NoData, inits |-> 0]

\* this.downloads.get(downloadId) is defined
KnownAlways(d) == TRUE
Known(d) == downloads[d].status # "none"

\* chunks.length of the sparse array
ArrayLength(chunks) ==
    IF \A i \in ChunkIdx : chunks[i] = Hole THEN 0
    ELSE 1 + CHOOSE i \in ChunkIdx :
                 /\ chunks[i] # Hole
                 /\ \A j \in ChunkIdx : chunks[j] # Hole => j <= i

\* Buffer.concat(list): throws a TypeError on a slot that holds no buffer
ConcatThrows(chunks) ==
    \E i \in ChunkIdx : i < ArrayLength(chunks) /\ chunks[i] = Hole

RECURSIVE ConcatUpTo(_, _)
ConcatUpTo(chunks, n) ==
    IF n = 0 THEN <<>> ELSE ConcatUpTo(chunks, n - 1) \o chunks[n - 1]

BufferConcat(chunks) == ConcatUpTo(chunks, ArrayLength(chunks))

\* Math.round((receivedChunks / totalChunks) * 100)
ProgressFloor(received, total) ==
    IF total = Undefined THEN NaN
    ELSE IF total = 0 THEN Infinity
    ELSE (100 * received) \div total
Progress(received, total) ==
    IF total = Undefined THEN NaN
    ELSE IF total = 0 THEN Infinity
    ELSE (200 * received + total) \div (2 * total)

\* path.join(downloadDir, `${clientId}_${fileName}`)
FilePath(dl) == <<dl.clientId, dl.fileName>>

(***************************************************************************)
(* History bookkeeping                                                     *)
(***************************************************************************)
Step(op, c, d, id) == [op |-> op, c |-> c, d |-> d, id |-> id]

HistMeta(h) == [h EXCEPT !.meta = @ + 1]

HistChunk(h, idx, data, isLast) ==
    [h EXCEPT !.chunk = @ + 1,
              !.flagged = @ + (IF isLast THEN 1 ELSE 0),
              !.lastFlag = isLast,
              !.chunkBeforeMeta = @ \/ h.meta = 0,
              !.outOfOrder = @ \/ \E j \in ChunkIdx : j > idx /\ h.sent[j] # NoData,
              !.sent = [@ EXCEPT ![idx] = data]]

HistError(h) == [h EXCEPT !.err = @ + 1]

(***************************************************************************)
(* DownloadManager: methods, as updates of one record                      *)
(***************************************************************************)
\* uuidv4(): the ids the generator can return (never one it returned before)
Uuidv4Fixed == DownloadIds
Uuidv4 == {d \in DownloadIds : hist[d].inits = 0}

\* initiateDownload, lines 307-314
NewDownload(id) ==
    [NoDownload EXCEPT !.clientId = id, !.status = "initiated", !.hasChunks = TRUE]

\* initializeDownload, lines 330-334
MetadataKeepsTerminal(dl, fileName, totalChunks) ==
    IF dl.status \in {"completed", "failed"} THEN dl
    ELSE [dl EXCEPT !.fileName = fileName, !.totalChunks = totalChunks,
                    !.status = "downloading", !.receivedChunks = 0]
WithMetadata(dl, fileName, totalChunks) ==
    [dl EXCEPT !.fileName = fileName, !.totalChunks = totalChunks,
               !.status = "downloading", !.receivedChunks = 0]

\* handleChunk, lines 348-350
ChunkAppended(dl, idx, data) ==
    LET n == (IF dl.receivedChunks = Undefined THEN 0 ELSE dl.receivedChunks) + 1
    IN  [dl EXCEPT !.chunks = [@ EXCEPT ![ArrayLength(dl.chunks)] = B64Decode(data)],
                   !.receivedChunks = n,
                   !.progress = Progress(n, dl.totalChunks)]
WithChunk(dl, idx, data) ==
    LET n == (IF dl.receivedChunks = Undefined THEN 0 ELSE dl.receivedChunks) + 1
    IN  [dl EXCEPT !.chunks = [@ EXCEPT ![idx] = B64Decode(data)],
                   !.receivedChunks = n,
                   !.progress = Progress(n, dl.totalChunks)]

\* handleError, lines 396-398
ErrorDeletes(dl, msg) == NoDownload
WithError(dl, msg) == [dl EXCEPT !.status = "failed", !.error = msg]

\* completeDownload after the write, lines 372-377
WithCompletion(dl, path) ==
    [dl EXCEPT !.status = "completed", !.filePath = path,
               !.chunks = NoChunks, !.hasChunks = FALSE]

(***************************************************************************)
(* DownloadManager: actions                                                *)
(***************************************************************************)
\* initiateDownload(clientId) with downloadId = d
DoInitiate(d, id) ==
    /\ downloads' = [downloads EXCEPT ![d] = NewDownload(id)]
    /\ persisted' = IF redisUp THEN [persisted EXCEPT ![d] = "initiated"] ELSE persisted
    /\ hist' = [hist EXCEPT ![d] = [NoHist EXCEPT !.inits = hist[d].inits + 1]]

\* completeDownload(d) up to its first suspension, given the record dl that
\* handleChunk has just updated
DoCompleteIfAllReceived(d, dl, h) ==
    IF dl.receivedChunks # dl.totalChunks THEN
        /\ downloads' = [downloads EXCEPT ![d] = dl]
        /\ hist' = [hist EXCEPT ![d] = h]
        /\ UNCHANGED <<persisted, writes>>
    ELSE IF ConcatThrows(dl.chunks) THEN
        /\ downloads' = [downloads EXCEPT ![d] = WithError(dl, "TypeError")]
        /\ persisted' = [persisted EXCEPT ![d] = "failed"]
        /\ hist' = [hist EXCEPT ![d] = h]
        /\ UNCHANGED writes
    ELSE
        /\ downloads' = [downloads EXCEPT ![d] = dl]
        /\ writes' = Append(writes, [d |-> d, path |-> FilePath(dl),
                                     data |-> BufferConcat(dl.chunks)])
        /\ hist' = [hist EXCEPT ![d] = [h EXCEPT !.assembled = @ + 1]]
        /\ UNCHANGED persisted
DoComplete(d, dl, h) ==
    IF ConcatThrows(dl.chunks) THEN
        /\ downloads' = [downloads EXCEPT ![d] = WithError(dl, "TypeError")]
        /\ persisted' = [persisted EXCEPT ![d] = "failed"]
        /\ hist' = [hist EXCEPT ![d] = h]
        /\ UNCHANGED writes
    ELSE
        /\ downloads' = [downloads EXCEPT ![d] = dl]
        /\ writes' = Append(writes, [d |-> d, path |-> FilePath(dl),
                                     data |-> BufferConcat(dl.chunks)])
        /\ hist' = [hist EXCEPT ![d] = [h EXCEPT !.assembled = @ + 1]]
        /\ UNCHANGED persisted

\* handleChunk(downloadId, chunkIndex, data, isLast)
DoHandleChunk(d, idx, data, isLast) ==
    IF ~Known(d) THEN UNCHANGED <<downloads, persisted, writes, hist>>
    ELSE IF ~downloads[d].hasChunks THEN
        \* download.chunks is undefined: line 348 throws, the handler's catch logs
        /\ hist' = [hist EXCEPT ![d] = HistChunk(@, idx, data, isLast)]
        /\ UNCHANGED <<downloads, persisted, writes>>
    ELSE
        LET dl == WithChunk(downloads[d], idx, data)
            h == HistChunk(hist[d], idx, data, isLast)
        IN  IF isLast THEN DoComplete(d, dl, h)
            ELSE /\ downloads' = [downloads EXCEPT ![d] = dl]
                 /\ hist' = [hist EXCEPT ![d] = h]
                 /\ UNCHANGED <<persisted, writes>>

\* initializeDownload(downloadId, fileName, fileSize, totalChunks); fileSize is
\* stored and never read again
DoInitializeDownload(d, fileName, totalChunks) ==
    IF ~Known(d) THEN UNCHANGED <<downloads, persisted, hist>>
    ELSE /\ downloads' = [downloads EXCEPT ![d] = WithMetadata(@, fileName, totalChunks)]
         /\ persisted' = [persisted EXCEPT ![d] = "downloading"]
         /\ hist' = [hist EXCEPT ![d] = HistMeta(@)]

\* handleError(downloadId, errorMessage)
DoHandleError(d, msg) ==
    IF ~Known(d) THEN UNCHANGED <<downloads, persisted, hist>>
    ELSE /\ downloads' = [downloads EXCEPT ![d] = WithError(@, msg)]
         /\ persisted' = [persisted EXCEPT ![d] = "failed"]
         /\ hist' = [hist EXCEPT ![d] = HistError(@)]

\* the 'message' handler of connection c can run
LiveOrRefused(c) == sock[c] \in {"open", "closing", "refused"}
LiveOrClosed(c) == sock[c] \in {"open", "closing", "closed"}
Live(c) == sock[c] \in {"open", "closing"}

\* ws.on('message'), case 'file_chunk'
OnFileChunk(c, d, idx, data, isLast) ==
    /\ Live(c)
    /\ nMsgs < MaxMsgs
    /\ nMsgs' = nMsgs + 1
    /\ DoHandleChunk(d, idx, data, isLast)
    /\ UNCHANGED <<regVars, trigVars, files, last, agent>>

\* ws.on('message'), case 'file_metadata'
OnFileMetadata(c, d, fileName, totalChunks) ==
    /\ Live(c)
    /\ nMsgs < MaxMsgs
    /\ nMsgs' = nMsgs + 1
    /\ DoInitializeDownload(d, fileName, totalChunks)
    /\ UNCHANGED <<regVars, trigVars, files, writes, last, agent>>

\* ws.on('message'), case 'error'
OnError(c, d) ==
    /\ Live(c)
    /\ nMsgs < MaxMsgs
    /\ nMsgs' = nMsgs + 1
    /\ DoHandleError(d, "agent")
    /\ UNCHANGED <<regVars, trigVars, files, writes, last, agent>>

\* ws.on('message') for a frame JSON.parse rejects: the catch logs the error
\* (last.d is the number of the frame on the wire)
OnMalformedCloses(c) ==
    /\ Live(c)
    /\ nMsgs < MaxMsgs
    /\ nMsgs' = nMsgs + 1
    /\ sock' = [sock EXCEPT ![c] = "closing"]
    /\ last' = Step("malformed", c, nMsgs + 1, clientId[c])
    /\ UNCHANGED <<mtls, redisUp, cert, clientId, connections, hash, statusKey, cmQueue,
                   nRegs, acks, errsSent, trigVars, downloads, persisted, files, writes,
                   hist, agent>>
OnMalformed(c) ==
    /\ Live(c)
    /\ nMsgs < MaxMsgs
    /\ nMsgs' = nMsgs + 1
    /\ last' = Step("malformed", c, nMsgs + 1, clientId[c])
    /\ UNCHANGED <<regVars, trigVars, downloads, persisted, files, writes, hist, agent>>

RemoveAt(s, k) == SubSeq(s, 1, k - 1) \o SubSeq(s, k + 1, Len(s))

\* fs.writeFile resolves: completeDownload resumes at line 372
WriteFileOk(k) ==
    /\ k \in 1..Len(writes)
    /\ LET w == writes[k]
       IN  /\ files' = [files EXCEPT ![w.path] = w.data]
           /\ downloads' = [downloads EXCEPT ![w.d] = WithCompletion(@, w.path)]
           /\ persisted' = [persisted EXCEPT ![w.d] = "completed"]
           /\ hist' = [hist EXCEPT ![w.d].wrote = w.data]
    /\ writes' = RemoveAt(writes, k)
    /\ UNCHANGED <<regVars, trigVars, nMsgs, last, agent>>

\* fs.writeFile rejects: the catch at line 387 calls handleError
WriteFileFail(k) ==
    /\ k \in 1..Len(writes)
    /\ LET w == writes[k]
       IN  /\ downloads' = [downloads EXCEPT ![w.d] = WithError(@, "EIO")]
           /\ persisted' = [persisted EXCEPT ![w.d] = "failed"]
    /\ writes' = RemoveAt(writes, k)
    /\ UNCHANGED <<regVars, trigVars, files, hist, nMsgs, last, agent>>

\* DownloadManager.initiateDownload(clientId), called for a connected identity
InitiateDownload(id) ==
    /\ connections[id] # 0
    /\ \E d \in Uuidv4 :
        /\ DoInitiate(d, id)
    /\ UNCHANGED <<regVars, trigVars, files, writes, nMsgs, last, agent>>

Paths == (Ids \cup {NoId}) \X (FileNames \cup {UndefinedName})

InitDownloads ==
    /\ downloads = [d \in DownloadIds |-> NoDownload]
    /\ persisted = [d \in DownloadIds |-> "none"]
    /\ files = [p \in Paths |-> NoData]
    /\ writes = <<>>
    /\ hist = [d \in DownloadIds |-> NoHist]
    /\ nMsgs = 0
    /\ dmQueue = <<>>
    /\ responses = {}
    /\ requests = {}
    /\ nTrigs = 0

InitAgentOff == agent = [pc |-> "off"]

\* one tunnel registered as site-1 and one tunnel that has not registered
InitTransfer ==
    /\ mtls = FALSE
    /\ sock = [c \in Conns |-> IF c <= 2 THEN "open" ELSE "none"]
    /\ cert = [c \in Conns |-> NoId]
    /\ clientId = [c \in Conns |-> IF c = 1 THEN "site-1" ELSE NoId]
    /\ connections = [i \in Ids |-> IF i = "site-1" THEN 1 ELSE 0]
    /\ hash = [i \in Ids |-> IF i = "site-1" THEN 1 ELSE 0]
    /\ statusKey = [i \in Ids |-> i = "site-1"]
    /\ redisUp = TRUE
    /\ cmQueue = <<>>
    /\ nRegs = 1
    /\ acks = [c \in Conns |-> IF c = 1 THEN {"site-1"} ELSE {}]
    /\ errsSent = [c \in Conns |-> 0]
    /\ InitDownloads
    /\ InitAgentOff
    /\ last = Step("init", 0, 0, NoId)

NextTransfer ==
    \/ \E id \in Ids : InitiateDownload(id)
    \/ \E c \in Conns, d \in DownloadIds, fn \in FileNames, n \in TotalChunkValues :
           OnFileMetadata(c, d, fn, n)
    \/ \E c \in Conns, d \in DownloadIds, i \in ChunkIdx, isLast \in BOOLEAN :
           OnFileChunk(c, d, i, WireData(i), isLast)
    \/ \E c \in Conns, d \in DownloadIds : OnError(c, d)
    \/ \E k \in 1..MaxMsgs : WriteFileOk(k)
    \/ \E k \in 1..MaxMsgs : WriteFileFail(k)

SpecTransfer == InitTransfer /\ [][NextTransfer]_vars

\* the same coordinator when every transfer frame arrives on a tunnel other
\* than connection 1, the one registered as site-1: the senders have not
\* registered
NextStranger ==
    \/ \E id \in Ids : InitiateDownload(id)
    \/ \E c \in Conns \ {1}, d \in DownloadIds, fn \in FileNames, n \in TotalChunkValues :
           OnFileMetadata(c, d, fn, n)
    \/ \E c \in Conns \ {1}, d \in DownloadIds, i \in ChunkIdx, isLast \in BOOLEAN :
           OnFileChunk(c, d, i, WireData(i), isLast)
    \/ \E c \in Conns \ {1}, d \in DownloadIds : OnError(c, d)
    \/ \E k \in 1..MaxMsgs : WriteFileOk(k)
    \/ \E k \in 1..MaxMsgs : WriteFileFail(k)

SpecStranger == InitTransfer /\ [][NextStranger]_vars

(***************************************************************************)
(* ConnectionManager.  Every redis command goes down one connection, so the *)
(* store executes the commands in the order they are issued and the        *)
(* replies come back in that order: a command takes effect in the step     *)
(* that issues it, and the awaiting continuations resume first-in          *)
(* first-out.                                                              *)
(***************************************************************************)
\* a suspended async call: the redis command it awaits was issued in this
\* step and is rejected (err) when the server cannot be reached
Task(kind, pc, c, id, exists) ==
    [kind |-> kind, pc |-> pc, c |-> c, id |-> id, exists |-> exists, d |-> 0,
     err |-> ~redisUp]

\* this.connections.set(clientId, ws), line 40
ConnectionsSetIfAbsent(id, c) ==
    IF connections[id] = 0 THEN [connections EXCEPT ![id] = c] ELSE connections
ConnectionsSet(id, c) == [connections EXCEPT ![id] = c]

\* registerClient(clientId, ws) up to its first suspension, lines 40-41
RegisterClientCallNoHset(c, id) ==
    /\ connections' = ConnectionsSet(id, c)
    /\ hash' = hash
    /\ cmQueue' = Append(cmQueue, Task("register", "hset", c, id, FALSE))
RegisterClientCall(c, id) ==
    /\ connections' = ConnectionsSet(id, c)
    /\ hash' = IF redisUp THEN [hash EXCEPT ![id] = c] ELSE hash
    /\ cmQueue' = Append(cmQueue, Task("register", "hset", c, id, FALSE))

\* unregisterClient(clientId) up to its first suspension, lines 46-47
UnregisterClientCall(c, id) ==
    /\ connections' = [connections EXCEPT ![id] = 0]
    /\ hash' = IF redisUp THEN [hash EXCEPT ![id] = 0] ELSE hash
    /\ cmQueue' = Append(cmQueue, Task("unregister", "hdel", c, id, FALSE))

\* what isClientConnected(clientId) answers when neither the hash nor the map
\* changes while it is suspended, lines 52-53
IsClientConnected(id) == connections[id] # 0 /\ hash[id] # 0

HeadIs(kind, pc) ==
    /\ Len(cmQueue) > 0
    /\ Head(cmQueue).kind = kind
    /\ Head(cmQueue).pc = pc

\* wss.on('connection'), after verifyClient under mutual authentication.
\* cn is the CN of the verified peer certificate, NoId when the handshake
\* produced no certificate with a subject.
Accept(c, cn) ==
    /\ sock[c] = "none"
    /\ \A k \in Conns : k < c => sock[k] # "none"
    /\ IF mtls /\ cn = NoId
       THEN /\ sock' = [sock EXCEPT ![c] = "refused"]
            /\ UNCHANGED cert
       ELSE /\ sock' = [sock EXCEPT ![c] = "open"]
            /\ cert' = [cert EXCEPT ![c] = IF mtls THEN cn ELSE NoId]
    /\ last' = Step("accept", c, 0, cn)
    /\ UNCHANGED <<mtls, redisUp, clientId, connections, hash, statusKey, cmQueue, nRegs,
                   acks, errsSent, trigVars, dlVars, agent>>

\* clientId !== clientIdFromCert is false, server-mtls.js line 70
CertIgnored(c, id) == TRUE
CertMatches(c, id) == id = cert[c]

\* ws.on('message'), case 'register'
OnRegister(c, id) ==
    /\ Live(c)
    /\ nRegs < MaxRegs
    /\ nRegs' = nRegs + 1
    /\ clientId' = [clientId EXCEPT ![c] = id]
    /\ IF mtls /\ ~CertMatches(c, id)
       THEN \* error frame, ws.close(), return
            /\ errsSent' = [errsSent EXCEPT ![c] = IF sock[c] = "open" THEN @ + 1 ELSE @]
            /\ sock' = [sock EXCEPT ![c] = "closing"]
            /\ last' = Step("register_rejected", c, 0, id)
            /\ UNCHANGED <<connections, hash, cmQueue>>
       ELSE /\ RegisterClientCall(c, id)
            /\ last' = Step("register", c, 0, id)
            /\ UNCHANGED <<errsSent, sock>>
    /\ UNCHANGED <<mtls, redisUp, cert, statusKey, acks, trigVars, dlVars, agent>>

\* registerClient resumes after hset: set client:<id>:status EX 300, line 42.
\* A rejected hset makes registerClient throw into the handler's catch.
RegisterStatus ==
    /\ HeadIs("register", "hset")
    /\ LET t == Head(cmQueue)
       IN  IF t.err
           THEN /\ cmQueue' = Tail(cmQueue)
                /\ last' = Step("register_failed", t.c, 0, t.id)
                /\ UNCHANGED statusKey
           ELSE /\ statusKey' = IF redisUp THEN [statusKey EXCEPT ![t.id] = TRUE]
                                 ELSE statusKey
                /\ cmQueue' = Append(Tail(cmQueue),
                                      [t EXCEPT !.pc = "set", !.err = ~redisUp])
                /\ last' = Step("register_status", t.c, 0, t.id)
    /\ UNCHANGED <<mtls, redisUp, sock, cert, clientId, connections, hash, nRegs, acks,
                   errsSent, trigVars, dlVars, agent>>

\* registerClient returns: the handler sends 'registered' with the current
\* value of the closure variable clientId (a frame sent on a socket that is
\* no longer open is not delivered)
RegisterAck ==
    /\ HeadIs("register", "set")
    /\ LET t == Head(cmQueue)
       IN  IF t.err
           THEN /\ last' = Step("register_failed", t.c, 0, t.id)
                /\ UNCHANGED acks
           ELSE /\ acks' = [acks EXCEPT ![t.c] = IF sock[t.c] = "open"
                                                    THEN @ \cup {clientId[t.c]} ELSE @]
                /\ last' = Step("registered", t.c, 0, t.id)
    /\ cmQueue' = Tail(cmQueue)
    /\ UNCHANGED <<mtls, redisUp, sock, cert, clientId, connections, hash, statusKey, nRegs,
                   errsSent, trigVars, dlVars, agent>>

\* ws.on('close')
OnClose(c) ==
    /\ Live(c)
    /\ sock' = [sock EXCEPT ![c] = "closed"]
    /\ IF clientId[c] # NoId
       THEN UnregisterClientCall(c, clientId[c])
       ELSE UNCHANGED <<connections, hash, cmQueue>>
    /\ last' = Step("close", c, 0, clientId[c])
    /\ UNCHANGED <<mtls, redisUp, cert, clientId, statusKey, nRegs, acks, errsSent,
                   trigVars, dlVars, agent>>

\* unregisterClient resumes after hdel: del client:<id>:status, line 48.
\* A rejected hdel makes unregisterClient throw into the close handler, which
\* has no catch: the rejection is reported and the process goes on (see
\* CloseHandlerRejects for the runtimes that end the process).
UnregisterStatus ==
    /\ HeadIs("unregister", "hdel")
    /\ LET t == Head(cmQueue)
       IN  IF t.err
           THEN /\ cmQueue' = Tail(cmQueue)
                /\ last' = Step("unregister_failed", t.c, 0, t.id)
                /\ UNCHANGED statusKey
           ELSE /\ statusKey' = IF redisUp THEN [statusKey EXCEPT ![t.id] = FALSE]
                                 ELSE statusKey
                /\ cmQueue' = Append(Tail(cmQueue),
                                      [t EXCEPT !.pc = "del", !.err = ~redisUp])
                /\ last' = Step("unregister_status", t.c, 0, t.id)
    /\ UNCHANGED <<mtls, redisUp, sock, cert, clientId, connections, hash, nRegs, acks,
                   errsSent, trigVars, dlVars, agent>>

\* unregisterClient returns to the close handler
UnregisterReturn ==
    /\ HeadIs("unregister", "del")
    /\ last' = Step(IF Head(cmQueue).err THEN "unregister_failed" ELSE "unregister_return",
                    Head(cmQueue).c, 0, Head(cmQueue).id)
    /\ cmQueue' = Tail(cmQueue)
    /\ UNCHANGED <<mtls, redisUp, sock, cert, clientId, connections, hash, statusKey, nRegs,
                   acks, errsSent, trigVars, dlVars, agent>>

\* the 300 s time-to-live of client:<id>:status runs out
StatusExpires(id) ==
    /\ statusKey[id]
    /\ statusKey' = [statusKey EXCEPT ![id] = FALSE]
    /\ last' = Step("expire", 0, 0, id)
    /\ UNCHANGED <<mtls, redisUp, sock, cert, clientId, connections, hash, cmQueue, nRegs,
                   acks, errsSent, trigVars, dlVars, agent>>

(***************************************************************************)
(* POST /api/download                                                      *)
(***************************************************************************)
Response(id, code, d) ==
    [id |-> id, code |-> code, d |-> d,
     connected |-> IF id = NoId THEN FALSE ELSE IsClientConnected(id)]

\* the handler up to its first suspension (hexists), lines 107-116 / 52
TriggerStart(id) ==
    /\ nTrigs < MaxTriggers
    /\ nTrigs' = nTrigs + 1
    /\ IF id = NoId
       THEN /\ responses' = responses \cup {Response(id, 400, 0)}
            /\ UNCHANGED cmQueue
       ELSE /\ cmQueue' = Append(cmQueue, Task("trigger", "hexists", 0, id, hash[id] # 0))
            /\ UNCHANGED responses
    /\ last' = Step("trigger", 0, 0, id)
    /\ UNCHANGED <<mtls, redisUp, sock, cert, clientId, connections, hash, statusKey, nRegs,
                   acks, errsSent, dmQueue, requests, dlVars, agent>>

\* isClientConnected resumes (line 53); not connected: 404; connected:
\* initiateDownload up to its suspension (hmset)
TriggerCheck ==
    /\ HeadIs("trigger", "hexists")
    /\ LET t == Head(cmQueue)
       IN  IF t.err
           THEN \* hexists was rejected: isClientConnected throws, catch: 500
                /\ responses' = responses \cup {Response(t.id, 500, 0)}
                /\ last' = Step("trigger_500", 0, 0, t.id)
                /\ UNCHANGED <<dmQueue, downloads, persisted, hist>>
           ELSE IF ~(connections[t.id] # 0 /\ t.exists)
           THEN /\ responses' = responses \cup {Response(t.id, 404, 0)}
                /\ last' = Step("trigger_404", 0, 0, t.id)
                /\ UNCHANGED <<dmQueue, downloads, persisted, hist>>
           ELSE \E d \in Uuidv4 :
                /\ DoInitiate(d, t.id)
                /\ dmQueue' = Append(dmQueue, [t EXCEPT !.pc = "hmset", !.d = d,
                                                         !.err = ~redisUp])
                /\ last' = Step("trigger_initiate", 0, d, t.id)
                /\ UNCHANGED responses
    /\ cmQueue' = Tail(cmQueue)
    /\ UNCHANGED <<mtls, redisUp, sock, cert, clientId, connections, hash, statusKey, nRegs,
                   acks, errsSent, requests, nTrigs, files, writes, nMsgs, agent>>

\* initiateDownload returns, or throws when its hmset was rejected (500);
\* getClientConnection; ws.send(download_request).
\* An absent handle makes ws.send a TypeError (500).  On a handle whose
\* socket is no longer open, ws.send either throws (500) or drops the frame
\* (200), depending on the release of the ws library.
TriggerSend(throws) ==
    /\ Len(dmQueue) > 0
    /\ LET t == Head(dmQueue)
           ws == connections[t.id]
       IN  /\ IF t.err \/ ws = 0 THEN
                  /\ responses' = responses \cup {Response(t.id, 500, t.d)}
                  /\ UNCHANGED requests
              ELSE IF sock[ws] = "open" THEN
                  /\ requests' = requests \cup {<<ws, t.d>>}
                  /\ responses' = responses \cup {Response(t.id, 200, t.d)}
              ELSE
                  /\ responses' = responses \cup
                                  {Response(t.id, IF throws THEN 500 ELSE 200, t.d)}
                  /\ UNCHANGED requests
           /\ last' = Step("trigger_done", ws, t.d, t.id)
    /\ dmQueue' = Tail(dmQueue)
    /\ UNCHANGED <<regVars, nTrigs, dlVars, agent>>

\* the redis server becomes unreachable: the commands still awaiting their
\* reply are rejected (they were executed), later ones are rejected unexecuted
RedisLost ==
    /\ redisUp
    /\ redisUp' = FALSE
    /\ cmQueue' = [k \in 1..Len(cmQueue) |-> [cmQueue[k] EXCEPT !.err = TRUE]]
    /\ dmQueue' = [k \in 1..Len(dmQueue) |-> [dmQueue[k] EXCEPT !.err = TRUE]]
    /\ last' = Step("redis_lost", 0, 0, NoId)
    /\ UNCHANGED <<mtls, sock, cert, clientId, connections, hash, statusKey, nRegs,
                   acks, errsSent, responses, requests, nTrigs, dlVars, agent>>

\* the rejection of unregisterClient in the close handler is an unhandled
\* rejection: on the runtimes that treat it as fatal the process ends, and
\* everything it held in memory with it
CloseHandlerRejects ==
    /\ Len(cmQueue) > 0
    /\ Head(cmQueue).kind = "unregister" /\ Head(cmQueue).err
    /\ sock' = [c \in Conns |-> IF Live(c) THEN "closed" ELSE sock[c]]
    /\ connections' = [i \in Ids |-> 0]
    /\ cmQueue' = <<>>
    /\ dmQueue' = <<>>
    /\ downloads' = [d \in DownloadIds |-> NoDownload]
    /\ writes' = <<>>
    /\ last' = Step("exit", Head(cmQueue).c, 0, Head(cmQueue).id)
    /\ UNCHANGED <<mtls, redisUp, cert, clientId, hash, statusKey, nRegs, acks,
                   errsSent, responses, requests, nTrigs, persisted, files, hist,
                   nMsgs, agent>>

\* the coordinator after construction: server.js or server-mtls.js
InitRegistry ==
    /\ mtls \in BOOLEAN
    /\ sock = [c \in Conns |-> "none"]
    /\ cert = [c \in Conns |-> NoId]
    /\ clientId = [c \in Conns |-> NoId]
    /\ connections = [i \in Ids |-> 0]
    /\ hash = [i \in Ids |-> 0]
    /\ statusKey = [i \in Ids |-> FALSE]
    /\ redisUp = TRUE
    /\ cmQueue = <<>>
    /\ nRegs = 0
    /\ acks = [c \in Conns |-> {}]
    /\ errsSent = [c \in Conns |-> 0]
    /\ InitDownloads
    /\ InitAgentOff
    /\ last = Step("init", 0, 0, NoId)

NextRegistry ==
    \/ \E c \in Conns, cn \in Ids \cup {NoId} : Accept(c, cn)
    \/ \E c \in Conns, id \in Ids : OnRegister(c, id)
    \/ RegisterStatus
    \/ RegisterAck
    \/ \E c \in Conns : OnClose(c)
    \/ UnregisterStatus
    \/ UnregisterReturn
    \/ \E id \in Ids : StatusExpires(id)

SpecRegistry == InitRegistry /\ [][NextRegistry]_vars

\* the registry together with POST /api/download
NextTrigger ==
    \/ NextRegistry
    \/ \E id \in Ids \cup {NoId} : TriggerStart(id)
    \/ TriggerCheck
    \/ \E throws \in BOOLEAN : TriggerSend(throws)

SpecTrigger == InitRegistry /\ [][NextTrigger]_vars

\* server-mtls.js with one tunnel registered as site-1: further connection
\* attempts come without a certificate subject, tunnels close, and transfers
\* run meanwhile
InitSession ==
    /\ mtls = TRUE
    /\ redisUp = TRUE
    /\ sock = [c \in Conns |-> IF c = 1 THEN "open" ELSE "none"]
    /\ cert = [c \in Conns |-> IF c = 1 THEN "site-1" ELSE NoId]
    /\ clientId = [c \in Conns |-> IF c = 1 THEN "site-1" ELSE NoId]
    /\ connections = [i \in Ids |-> IF i = "site-1" THEN 1 ELSE 0]
    /\ hash = [i \in Ids |-> IF i = "site-1" THEN 1 ELSE 0]
    /\ statusKey = [i \in Ids |-> i = "site-1"]
    /\ cmQueue = <<>>
    /\ nRegs = 1
    /\ acks = [c \in Conns |-> IF c = 1 THEN {"site-1"} ELSE {}]
    /\ errsSent = [c \in Conns |-> 0]
    /\ InitDownloads
    /\ InitAgentOff
    /\ last = Step("init", 0, 0, NoId)

\* the transfers of this specification are of a file of one chunk
SessionTotalChunks == {1}
SessionChunkIdx == {0}

NextSession ==
    \/ \E c \in Conns, cn \in {NoId} : Accept(c, cn)
    \/ \E c \in Conns : OnClose(c)
    \/ UnregisterStatus
    \/ UnregisterReturn
    \/ \E id \in Ids : InitiateDownload(id)
    \/ \E c \in Conns, d \in DownloadIds, fn \in FileNames, n \in SessionTotalChunks :
           OnFileMetadata(c, d, fn, n)
    \/ \E c \in Conns, d \in DownloadIds, i \in SessionChunkIdx, isLast \in BOOLEAN :
           OnFileChunk(c, d, i, WireData(i), isLast)
    \/ \E c \in Conns, d \in DownloadIds : OnError(c, d)
    \/ \E c \in Conns : OnMalformed(c)
    \/ \E k \in 1..MaxMsgs : WriteFileOk(k)
    \/ \E k \in 1..MaxMsgs : WriteFileFail(k)

SpecSession == InitSession /\ [][NextSession]_vars

\* the coordinator with a redis server that can become unreachable
NextOutage ==
    \/ NextTrigger
    \/ RedisLost
    \/ CloseHandlerRejects

SpecOutage == InitRegistry /\ [][NextOutage]_vars

(***************************************************************************)
(* The agent: connect, attemptReconnect, handleDownloadRequest             *)
(***************************************************************************)
MAX_RECONNECT_ATTEMPTS == 5
CHUNK_SIZE == 1048576
BaseDelayMs == 1000
MaxDelayMs == 30000

MaxOutages == 1        \* times an established tunnel is lost

\* sizes of the agent's source file: empty, one byte, one chunk, one chunk
\* and a byte, two chunks and a bit
FileSizes == {0, 1, CHUNK_SIZE, CHUNK_SIZE + 1, 2 * CHUNK_SIZE + 5}

RECURSIVE Pow2(_)
Pow2(n) == IF n = 0 THEN 1 ELSE 2 * Pow2(n - 1)

\* Math.ceil(fileSize / CHUNK_SIZE), line 212
CeilDiv(a, b) == (a + b - 1) \div b

\* Math.min(1000 * Math.pow(2, reconnectAttempts), 30000), line 196
ReconnectDelayUncapped(attempts) == BaseDelayMs * Pow2(attempts)
ReconnectDelay(attempts) == Min(BaseDelayMs * Pow2(attempts), MaxDelayMs)

Running == 0 - 1       \* the process has not exited

Frame(type, d, idx, isLast, n) ==
    [type |-> type, d |-> d, idx |-> idx, isLast |-> isLast, n |-> n]

\* no read stream is open for a download id
NoStream == [active |-> FALSE, totalChunks |-> 0, chunkIndex |-> 0, left |-> 0]

\* the agent once connect() has been called at start-up
InitAgent ==
    agent = [pc |-> "on", ws |-> "connecting", reconnectAttempts |-> 0,
             timer |-> 0, delays |-> <<>>, exit |-> Running, outages |-> 0,
             registers |-> 0, streams |-> [d \in DownloadIds |-> NoStream],
             outbox |-> [d \in DownloadIds |-> <<>>]]

Alive == agent.pc = "on" /\ agent.exit = Running

\* attemptReconnect(), lines 194-202
AttemptReconnect(a) ==
    IF a.reconnectAttempts < MAX_RECONNECT_ATTEMPTS
    THEN LET n == a.reconnectAttempts + 1
         IN  [a EXCEPT !.reconnectAttempts = n,
                       !.timer = ReconnectDelay(n),
                       !.delays = Append(@, ReconnectDelay(n))]
    ELSE [a EXCEPT !.exit = 1]

\* ws.on('open'): reconnectAttempts = 0 and the register frame
AgentOpen ==
    /\ Alive /\ agent.ws = "connecting"
    /\ agent' = [agent EXCEPT !.ws = "open", !.reconnectAttempts = 0, !.delays = <<>>,
                               !.registers = @ + 1]
    /\ UNCHANGED <<regVars, trigVars, dlVars, last>>

\* the connection attempt fails: 'error', then 'close'
AgentConnectFails ==
    /\ Alive /\ agent.ws = "connecting"
    /\ agent' = AttemptReconnect([agent EXCEPT !.ws = "closed"])
    /\ UNCHANGED <<regVars, trigVars, dlVars, last>>

\* the established tunnel is lost: ws.on('close')
AgentTunnelLost ==
    /\ Alive /\ agent.ws = "open"
    /\ agent.outages < MaxOutages
    /\ agent' = AttemptReconnect([agent EXCEPT !.ws = "closed", !.outages = @ + 1])
    /\ UNCHANGED <<regVars, trigVars, dlVars, last>>

\* setTimeout(connect, delay) fires
AgentTimer ==
    /\ Alive /\ agent.timer # 0
    /\ agent' = [agent EXCEPT !.timer = 0, !.ws = "connecting"]
    /\ UNCHANGED <<regVars, trigVars, dlVars, last>>

\* the download ids of the requests the agent has received
Requested == {d \in DownloadIds : agent.outbox[d] # <<>>}

\* ws.on('message'), case 'download_request': handleDownloadRequest up to
\* the first read of the stream, lines 207-225.  Every request carries a
\* download id of its own.
AgentDownloadRequest(d, exists, fileSize) ==
    /\ Alive /\ agent.ws = "open"
    /\ d \notin Requested
    /\ \A e \in DownloadIds : e < d => e \in Requested
    /\ IF ~exists
       THEN agent' = [agent EXCEPT
                !.outbox[d] = Append(@, Frame("error", d, 0, FALSE, 0))]
       ELSE LET n == CeilDiv(fileSize, CHUNK_SIZE)
            IN  agent' = [agent EXCEPT
                    !.outbox[d] = Append(@, Frame("file_metadata", d, 0, FALSE, n)),
                    !.streams[d] = [active |-> TRUE, totalChunks |-> n,
                                    chunkIndex |-> 0,
                                    left |-> CeilDiv(fileSize, CHUNK_SIZE)]]
    /\ UNCHANGED <<regVars, trigVars, dlVars, last>>

\* one turn of the for-await loop, lines 226-239, or its end.  ws.send throws
\* on a socket that is still connecting (the catch at line 241 ends the
\* transfer); on a closed socket it either throws or drops the frame,
\* depending on the release of the ws library.
AgentStreamStep(d, throws) ==
    /\ Alive
    /\ agent.streams[d].active
    /\ LET st == agent.streams[d]
       IN  IF st.left = 0 THEN
               agent' = [agent EXCEPT !.streams[d] = NoStream]
           ELSE IF agent.ws = "open" THEN
               agent' = [agent EXCEPT
                   !.outbox[d] = Append(@, Frame("file_chunk", d, st.chunkIndex,
                                                 st.chunkIndex = st.totalChunks - 1, 0)),
                   !.streams[d] = [st EXCEPT !.chunkIndex = @ + 1, !.left = @ - 1]]
           ELSE IF throws \/ agent.ws = "connecting" THEN
               agent' = [agent EXCEPT !.streams[d] = NoStream]
           ELSE
               agent' = [agent EXCEPT
                   !.streams[d] = [st EXCEPT !.chunkIndex = @ + 1, !.left = @ - 1]]
    /\ UNCHANGED <<regVars, trigVars, dlVars, last>>

\* no coordinator in this specification
InitAgentOnly ==
    /\ mtls = FALSE
    /\ sock = [c \in Conns |-> "none"]
    /\ cert = [c \in Conns |-> NoId]
    /\ clientId = [c \in Conns |-> NoId]
    /\ connections = [i \in Ids |-> 0]
    /\ hash = [i \in Ids |-> 0]
    /\ statusKey = [i \in Ids |-> FALSE]
    /\ redisUp = TRUE
    /\ cmQueue = <<>>
    /\ nRegs = 0
    /\ acks = [c \in Conns |-> {}]
    /\ errsSent = [c \in Conns |-> 0]
    /\ InitDownloads
    /\ InitAgent
    /\ last = Step("init", 0, 0, NoId)

NextAgent ==
    \/ AgentOpen
    \/ AgentConnectFails
    \/ AgentTunnelLost
    \/ AgentTimer
    \/ \E d \in DownloadIds, exists \in BOOLEAN, size \in FileSizes :
           AgentDownloadRequest(d, exists, size)
    \/ \E d \in DownloadIds, throws \in BOOLEAN : AgentStreamStep(d, throws)

SpecAgent == InitAgentOnly /\ [][NextAgent]_vars

(***************************************************************************)
(* One transfer end to end: the coordinator with the tunnel of site-1 on   *)
(* connection 1, and the agent at the other end of that tunnel.  The       *)
(* tunnel stays up and the source file is readable.                        *)
(***************************************************************************)
\* the file sizes whose chunks the coordinator's slots of this model hold
ReadableSizes == {s \in FileSizes : CeilDiv(s, CHUNK_SIZE) <= MaxChunkIdx + 1}

InitEndToEnd ==
    /\ mtls = FALSE
    /\ sock = [c \in Conns |-> IF c = 1 THEN "open" ELSE "none"]
    /\ cert = [c \in Conns |-> NoId]
    /\ clientId = [c \in Conns |-> IF c = 1 THEN "site-1" ELSE NoId]
    /\ connections = [i \in Ids |-> IF i = "site-1" THEN 1 ELSE 0]
    /\ hash = [i \in Ids |-> IF i = "site-1" THEN 1 ELSE 0]
    /\ statusKey = [i \in Ids |-> i = "site-1"]
    /\ redisUp = TRUE
    /\ cmQueue = <<>>
    /\ nRegs = 1
    /\ acks = [c \in Conns |-> IF c = 1 THEN {"site-1"} ELSE {}]
    /\ errsSent = [c \in Conns |-> 0]
    /\ InitDownloads
    /\ agent = [pc |-> "on", ws |-> "open", reconnectAttempts |-> 0,
                timer |-> 0, delays |-> <<>>, exit |-> Running, outages |-> 0,
                registers |-> 1, streams |-> [d \in DownloadIds |-> NoStream],
                outbox |-> [d \in DownloadIds |-> <<>>]]
    /\ last = Step("init", 0, 0, NoId)

\* the frames transfer d has put or will put on the wire: a triggered
\* transfer sends at least its file_metadata (or its error)
Reserved(d) ==
    IF agent.outbox[d] # <<>> THEN Len(agent.outbox[d]) + agent.streams[d].left
    ELSE IF hist[d].inits = 1 THEN 1 ELSE 0

RECURSIVE ReservedUpTo(_)
ReservedUpTo(n) == IF n = 0 THEN 0 ELSE ReservedUpTo(n - 1) + Reserved(n)

\* the frames the coordinator can still take within MaxMsgs
Room == MaxMsgs - ReservedUpTo(MaxDownloads)

\* POST /api/download for site-1: the record of the next transfer is created
\* (the download_request is then on its way down the tunnel)
TriggerNext ==
    /\ Room >= 1
    /\ \E d \in DownloadIds :
          /\ hist[d].inits = 0
          /\ \A e \in 1..(d - 1) : hist[e].inits = 1
          /\ InitiateDownload("site-1")
          /\ hist'[d].inits = 1

\* the download_request of transfer d reaches the agent
RequestArrives(d) ==
    /\ hist[d].inits = 1
    /\ \E size \in ReadableSizes :
          /\ CeilDiv(size, CHUNK_SIZE) <= Room
          /\ AgentDownloadRequest(d, TRUE, size)

\* the frames of transfer d the coordinator has handled
Handled(d) == hist[d].meta + hist[d].chunk + hist[d].err

\* the next frame the agent sent for transfer d reaches the coordinator's
\* message handler on connection 1
FrameArrives(d) ==
    /\ Handled(d) < Len(agent.outbox[d])
    /\ LET f == agent.outbox[d][Handled(d) + 1]
       IN  IF f.type = "file_metadata"
           THEN \E fn \in FileNames : OnFileMetadata(1, d, fn, f.n)
           ELSE IF f.type = "file_chunk"
           THEN OnFileChunk(1, d, f.idx, WireData(f.idx), f.isLast)
           ELSE OnError(1, d)

\* the for-await loop of transfer d takes its next turn on the open tunnel
StreamTurn(d) == AgentStreamStep(d, FALSE)

\* a pending fs.writeFile settles
WriteSettles == \E k \in 1..MaxMsgs : WriteFileOk(k) \/ WriteFileFail(k)

NextEndToEnd ==
    \/ TriggerNext
    \/ \E d \in DownloadIds : RequestArrives(d)
    \/ \E d \in DownloadIds : StreamTurn(d)
    \/ \E d \in DownloadIds : FrameArrives(d)
    \/ \E k \in 1..MaxMsgs : WriteFileOk(k)
    \/ \E k \in 1..MaxMsgs : WriteFileFail(k)

\* Every callback that is ready runs: the event loop delivers the frames of
\* an open tunnel, resumes the read stream and settles pending writes.
SpecEndToEnd ==
    /\ InitEndToEnd
    /\ [][NextEndToEnd]_vars
    /\ \A d \in DownloadIds :
          /\ WF_vars(RequestArrives(d))
          /\ WF_vars(StreamTurn(d))
          /\ WF_vars(FrameArrives(d))
    /\ WF_vars(WriteSettles)

(***************************************************************************)
(* Properties of the transfer state machine (SpecTransfer)                 *)
(***************************************************************************)
Terminal(st) == st \in {"completed", "failed"}

Rank(st) ==
    IF st = "none" THEN 0 ELSE IF st = "initiated" THEN 1
    ELSE IF st = "downloading" THEN 2 ELSE 3

Settled(d) == \A k \in 1..Len(writes) : writes[k].d # d

\* the agent's file of n chunks
RECURSIVE SourceFile(_)
SourceFile(n) == IF n = 0 THEN <<>> ELSE SourceFile(n - 1) \o FileChunk(n - 1)

\* what arrived for d is one file_metadata and then, in any order, one
\* file_chunk for each index 0..totalChunks-1, the last of them flagged isLast
CleanRun(d) ==
    LET h == hist[d]
        n == downloads[d].totalChunks
    IN  /\ Known(d)
        /\ h.meta = 1 /\ ~h.chunkBeforeMeta /\ h.err = 0
        /\ n >= 1 /\ h.chunk = n
        /\ \A i \in ChunkIdx : (i < n) <=> (h.sent[i] # NoData)
        /\ \A i \in ChunkIdx : i < n => h.sent[i] = WireData(i)
        /\ h.flagged = 1 /\ h.lastFlag

\* C1: after file_metadata (totalChunks = N) and N file_chunk messages that
\* cover 0..N-1 exactly once in any arrival order, the last arrival flagged
\* isLast, the transfer whose write did not fail ends completed and the
\* written output is payload[0] ++ ... ++ payload[N-1], by index.
C1_AssembledByIndex ==
    \A d \in DownloadIds :
        (CleanRun(d) /\ Settled(d) /\ downloads[d].error # "EIO") =>
            /\ downloads[d].status = "completed"
            /\ hist[d].wrote = SourceFile(downloads[d].totalChunks)
            /\ downloads[d].filePath = <<downloads[d].clientId, downloads[d].fileName>>

\* three chunks that arrived out of index order were assembled
C1_Witness ==
    \E d \in DownloadIds :
        /\ CleanRun(d) /\ Settled(d)
        /\ downloads[d].totalChunks = 2
        /\ hist[d].outOfOrder
        /\ downloads[d].status = "completed"
        /\ hist[d].wrote = <<77, 200, 9>>

\* C2: the status of a transfer only moves forward along
\* initiated -> downloading -> {completed | failed}, and a completed or failed
\* transfer never changes status again.
C2_StatusForward ==
    [][\A d \in DownloadIds :
          /\ Rank(downloads'[d].status) >= Rank(downloads[d].status)
          /\ Terminal(downloads[d].status) =>
                 downloads'[d].status = downloads[d].status]_vars

\* C3: the output of a transfer is assembled and written at most once, and
\* only in response to a file_chunk flagged isLast.
C3_AssembledOnce ==
    \A d \in DownloadIds :
        /\ hist[d].assembled <= 1
        /\ hist[d].assembled <= hist[d].flagged

\* C4: once the metadata of a transfer has been received, receivedChunks
\* never exceeds totalChunks.
C4_ReceivedAtMostTotal ==
    \A d \in DownloadIds :
        (Known(d) /\ downloads[d].totalChunks # Undefined) =>
            downloads[d].receivedChunks <= downloads[d].totalChunks

C13_FailedWriteFreesChunks ==
    [][\A d \in DownloadIds :
          (Len(writes') < Len(writes) /\ downloads'[d].error = "EIO"
           /\ downloads'[d] # downloads[d]) =>
              /\ downloads'[d].status = "failed"
              /\ ~downloads'[d].hasChunks
              /\ downloads'[d].chunks = NoChunks]_vars

\* C15: a file_metadata, file_chunk or error message for a transfer id that
\* has no record creates no record, changes no record, persists nothing and
\* starts no write.
C15_UnknownIdIsNoOp ==
    [][nMsgs' # nMsgs =>
          /\ \A d \in DownloadIds :
                 downloads[d].status = "none" =>
                     /\ downloads'[d] = downloads[d]
                     /\ persisted'[d] = persisted[d]
                     /\ hist'[d] = hist[d]
          /\ hist' = hist =>
                 /\ downloads' = downloads /\ persisted' = persisted
                 /\ files' = files /\ writes' = writes]_vars

\* two messages or more have arrived, all of them for ids without a record,
\* while another transfer has a record
C15_Witness ==
    /\ nMsgs >= 2
    /\ \A d \in DownloadIds : hist[d].meta + hist[d].chunk + hist[d].err = 0
    /\ \E d \in DownloadIds : downloads[d].status = "none"
    /\ \E d \in DownloadIds : downloads[d] = NewDownload(downloads[d].clientId)
                              /\ persisted[d] = "initiated"

\* a file_chunk was accepted for d in this step, with totalChunks >= 1
ChunkAccepted(d) ==
    /\ downloads'[d].receivedChunks # downloads[d].receivedChunks
    /\ downloads'[d].receivedChunks >= 1
    /\ downloads'[d].totalChunks >= 1

C22_LastFlagCompletes ==
    [][\A d \in DownloadIds :
          (hist'[d].flagged = hist[d].flagged + 1 /\ downloads[d].hasChunks) =>
              \/ /\ hist'[d].assembled = hist[d].assembled + 1
                 /\ Len(writes') = Len(writes) + 1
              \/ /\ downloads'[d].status = "failed"
                 /\ downloads'[d].error = "TypeError"]_vars

\* a transfer of two chunks is completed although only chunk 0 ever arrived
C22_Witness ==
    \E d \in DownloadIds :
        /\ downloads[d].status = "completed"
        /\ downloads[d].totalChunks = 2
        /\ downloads[d].receivedChunks = 1
        /\ hist[d].chunk = 1 /\ hist[d].sent[1] = NoData
        /\ hist[d].wrote = FileChunk(0)

\* C28: a transfer record is changed only by frames received on the
\* connection registered as the record's identity.  In SpecStranger every
\* frame arrives on a connection that has not registered, so no frame
\* changes a record, in memory or persisted.
C28_OnlyOwnerMutates ==
    [][(nMsgs' = nMsgs + 1 /\ \A c \in Conns \ {1} : clientId[c] = NoId) =>
          /\ downloads' = downloads
          /\ persisted' = persisted]_vars

\* the slots of the chunk array that hold a buffer
FilledSlots(dl) == {i \in ChunkIdx : dl.chunks[i] # Hole}

\* C31: while a transfer record is neither completed nor failed, its
\* receivedChunks (not yet set counts as 0) equals the number of filled
\* slots of its chunk array.
C31_ReceivedCountsFilledSlots ==
    \A d \in DownloadIds :
        (Known(d) /\ ~Terminal(downloads[d].status) /\ downloads[d].hasChunks) =>
            (IF downloads[d].receivedChunks = Undefined THEN 0
             ELSE downloads[d].receivedChunks) = Cardinality(FilledSlots(downloads[d]))

(***************************************************************************)
(* Properties of the registry (SpecRegistry) and the trigger (SpecTrigger)  *)
(***************************************************************************)
Quiescent(c) == \A k \in 1..Len(cmQueue) : cmQueue[k].c # c

\* C5: whenever an unregister(identity) call has just returned,
\* isConnected(identity) is false, also when a register(identity) ran
\* concurrently with it.
C5_DisconnectedAfterUnregister ==
    last.op = "unregister_return" => ~IsClientConnected(last.id)

\* C6: under mutual authentication, a connection with certificate identity A
\* that sent a register frame claiming B # A is closed and, once its handlers
\* have finished, no registry entry (local map or remote hash) was left by
\* that connection, and it was never acknowledged as B.
C6_RejectedLeavesNoEntry ==
    \A c \in Conns :
        (mtls /\ errsSent[c] > 0) =>
            /\ sock[c] \in {"closing", "closed"}
            /\ (sock[c] = "closed" /\ Quiescent(c)) =>
                   /\ \A i \in Ids : connections[i] # c /\ hash[i] # c
                   /\ \A i \in Ids \ {cert[c]} : i \notin acks[c]

\* C7: a trigger for an identity that is not connected answers 404 and
\* creates no transfer record, also when the agent disconnected while the
\* request was in progress.
C7_NotConnectedCreatesNothing ==
    \A r \in responses :
        (r.id # NoId /\ ~r.connected) => (r.code = 404 /\ r.d = 0)

\* C8: register(id, h) makes h the one handle the registry holds for id,
\* whatever handle it held before, changes no other identity's handle and
\* closes no other tunnel.
C8_LastRegistrationWins ==
    [][(nRegs' # nRegs /\ last'.op = "register") =>
          /\ connections'[last'.id] = last'.c
          /\ \A i \in Ids \ {last'.id} : connections'[i] = connections[i]
          /\ \A k \in Conns \ {last'.c} : sock'[k] = sock[k]]_vars

\* a second tunnel has registered an identity that a first, still open,
\* tunnel had registered: the registry holds the second handle
C8_Witness ==
    /\ last.op = "register" /\ last.c = 2
    /\ clientId[1] = last.id /\ sock[1] = "open" /\ last.id \in acks[1]
    /\ connections[last.id] = 2

\* C11: isConnected(identity) is true only if the local map holds a handle
\* and the liveness marker client:<id>:status exists; once the marker has
\* expired it is false although the handle and the hash entry remain.
\* (Checked when no registry call is suspended.)
C11_ConnectedNeedsLiveness ==
    \A id \in Ids :
        (IsClientConnected(id) /\ cmQueue = <<>>) => statusKey[id]

\* C12: the close handler calls unregister exactly when a registration had
\* completed on the connection: it calls it for an identity only if that
\* registration was acknowledged on this connection, and it does call it
\* when one was.
C12_UnregisterIffRegistered ==
    last.op = "close" =>
        /\ last.id # NoId => last.id \in acks[last.c]
        /\ acks[last.c] # {} => last.id # NoId

\* C17: under mutual authentication every registry entry, in the local map
\* and in the remote hash, is held by a connection whose verified
\* certificate CN is the identity of the entry.
C17_EntryMatchesCertificate ==
    mtls =>
        \A i \in Ids :
            /\ connections[i] # 0 => cert[connections[i]] = i
            /\ hash[i] # 0 => cert[hash[i]] = i

\* under mutual authentication one connection holds an entry while another
\* one, which claimed an identity that is not its certificate's, was turned
\* away
C17_Witness ==
    /\ mtls
    /\ \E i \in Ids : connections[i] # 0 /\ i \in acks[connections[i]]
    /\ \E c \in Conns : errsSent[c] > 0 /\ clientId[c] # cert[c]

\* C14: with the redis server unreachable every registry operation fails
\* towards its caller and the registry does not fall back to tracking in
\* memory only: a register whose remote write failed leaves no handle for
\* the identity in the local map.
C14_FailedRegisterLeavesNoHandle ==
    last.op = "register_failed" => connections[last.id] # last.c

(***************************************************************************)
(* Properties of the tunnels during transfers (SpecSession)                *)
(***************************************************************************)
NoTunnel == \A c \in Conns : sock[c] \notin {"open", "closing"}

ClosureStep ==
    /\ last' # last
    /\ last'.op \in {"close", "unregister_status", "unregister_return",
                     "unregister_failed"}

\* C18: the closure of a tunnel (the close handler and the unregister it
\* awaits) leaves every transfer record, its persisted status, the files and
\* the writes in flight as they were; and while no tunnel is up and no write
\* is in flight no step of the coordinator changes a record: a transfer
\* left downloading stays downloading.
C18_ClosureLeavesTransfers ==
    [][/\ ClosureStep =>
             /\ downloads' = downloads /\ persisted' = persisted
             /\ files' = files /\ writes' = writes
       /\ (NoTunnel /\ writes = <<>>) =>
             /\ downloads' = downloads /\ persisted' = persisted]_vars

\* the tunnel of site-1 closed in the middle of a transfer and its
\* unregister has returned: the record is still downloading
C18_Witness ==
    /\ sock[1] = "closed" /\ cmQueue = <<>> /\ connections["site-1"] = 0
    /\ last.op = "unregister_return"
    /\ writes = <<>>
    /\ \E d \in DownloadIds :
           /\ downloads[d].clientId = "site-1"
           /\ downloads[d].status = "downloading"
           /\ hist[d].chunk >= 1

C21_RecordsAreTheInitiatedIds ==
    \A d \in DownloadIds : (downloads[d].status # "none") <=> (hist[d].inits >= 1)

\* messages have arrived for an id with a record, which has failed, and for
\* an id without one, and the tunnel has closed
C21_Witness ==
    /\ sock[1] = "closed" /\ cmQueue = <<>>
    /\ nMsgs >= 2
    /\ \E d \in DownloadIds : hist[d].inits = 1 /\ downloads[d].status = "failed"
                              /\ hist[d].err >= 1
    /\ \E d \in DownloadIds : hist[d].inits = 0 /\ downloads[d].status = "none"

\* a register and an unregister of identity id have interleaved between
\* their phases: both are suspended on their last remote command, so every
\* update either of them makes to the map, the hash or the status key is done
BothInLastPhase(id) ==
    /\ Len(cmQueue) = 2
    /\ cmQueue[1].id = id /\ cmQueue[2].id = id
    /\ {cmQueue[1].kind, cmQueue[2].kind} = {"register", "unregister"}
    /\ {cmQueue[1].pc, cmQueue[2].pc} = {"set", "del"}

C24_MalformedDiscarded ==
    [][(last'.op = "malformed" /\ last'.d = nMsgs' /\ nMsgs' = nMsgs + 1) =>
          /\ connections' = connections /\ hash' = hash /\ statusKey' = statusKey
          /\ downloads' = downloads /\ persisted' = persisted /\ files' = files
          /\ writes' = writes /\ cmQueue' = cmQueue
          /\ sock' = sock /\ clientId' = clientId
          /\ acks' = acks /\ errsSent' = errsSent]_vars

\* the first frame on the tunnel of site-1 was malformed, and the
\* file_metadata and file_chunk frames that followed it on the same tunnel
\* were processed: the transfer is completed
C24_Witness ==
    /\ last.op = "malformed" /\ last.c = 1 /\ last.d = 1
    /\ nMsgs = 3 /\ sock[1] = "open" /\ sock[2] = "none"
    /\ connections["site-1"] = 1
    /\ \E d \in DownloadIds :
          /\ hist[d].meta = 1 /\ hist[d].chunk = 1
          /\ downloads[d].status = "completed"
          /\ hist[d].wrote = FileChunk(0)

\* C25: under mutual authentication, when connection c1 was rejected for
\* claiming an identity that is not its certificate's and has closed with its
\* handlers finished, the connection c2 that holds that identity by
\* certificate, registered it and is still open is still the registry's entry
\* for it (local map and hash).
C25_RejectionSparesOwner ==
    \A c1 \in Conns, c2 \in Conns :
        ( /\ mtls /\ c1 # c2
          /\ sock[c1] = "closed" /\ Quiescent(c1)
          /\ clientId[c1] # NoId /\ clientId[c1] # cert[c1]
          /\ sock[c2] = "open" /\ Quiescent(c2)
          /\ cert[c2] = clientId[c1] /\ clientId[c2] = cert[c2]
          /\ cert[c2] \in acks[c2] )
        => /\ connections[cert[c2]] = c2
           /\ hash[cert[c2]] = c2

\* C26: when connection c1, acknowledged as identity id, closes after another
\* connection c2 has registered id and holds its entry, and c2 stays open,
\* the registry still maps id to c2 and isConnected(id) is still true.
C26_SupersededCloseKeepsNewer ==
    [][\A c1 \in Conns, c2 \in Conns, id \in Ids :
          ( /\ c1 # c2 /\ cmQueue = <<>>
            /\ id \in acks[c1] /\ clientId[c1] = id
            /\ connections[id] = c2 /\ sock[c2] = "open" /\ sock'[c2] = "open"
            /\ sock[c1] = "open" /\ sock'[c1] = "closed" )
          => /\ connections'[id] = c2
             /\ IsClientConnected(id)']_vars

\* C27: once a connection has closed and none of its handlers is suspended,
\* no entry of the local map and no field of the hash refers to it, whatever
\* register frames it sent.
C27_ClosedLeavesNoEntry ==
    \A c \in Conns :
        (sock[c] = "closed" /\ Quiescent(c)) =>
            \A i \in Ids : connections[i] # c /\ hash[i] # c

\* C30: whenever a trigger has been answered (with any status code) and the
\* transfer record it created is in status initiated, a download_request for
\* that transfer was sent down a tunnel.
C30_RecordHasRequest ==
    \A r \in responses :
        (r.d # 0 /\ downloads[r.d].status = "initiated") =>
            \E q \in requests : q[2] = r.d

\* C29: with the tunnel up and the source file readable, every transfer that
\* was triggered eventually reaches status completed or failed, whatever the
\* size of the file.
C29_TriggeredTerminates ==
    \A d \in DownloadIds :
        (hist[d].inits = 1) ~> Terminal(downloads[d].status)

(***************************************************************************)
(* Properties of the agent (SpecAgent)                                     *)
(***************************************************************************)
IsPrefix(s, t) == Len(s) <= Len(t) /\ SubSeq(t, 1, Len(s)) = s

\* C10, as the specification states it: while every reconnection attempt
\* fails the delays are 1 s, 2 s, 4 s, 8 s, 16 s, and the process exits with a
\* non-zero status after the fifth failed attempt.
C10_DelaysFromOneSecond ==
    /\ IsPrefix(agent.delays, <<1000, 2000, 4000, 8000, 16000>>)
    /\ agent.exit # Running => (agent.exit # 0 /\ Len(agent.delays) = 5)

\* C10, amended: while every reconnection attempt fails the delays before
\* the 1st..5th attempts are 2 s, 4 s, 8 s, 16 s, 30 s (1 s doubled once per
\* attempt, the first included, capped at 30 s); there are exactly 5 attempts
\* and the process exits with status 1 after the fifth has failed.
C10_BackoffDelays ==
    /\ IsPrefix(agent.delays, <<2000, 4000, 8000, 16000, 30000>>)
    /\ Len(agent.delays) = agent.reconnectAttempts
    /\ agent.reconnectAttempts <= MAX_RECONNECT_ATTEMPTS
    /\ agent.exit # Running =>
           /\ agent.exit = 1
           /\ agent.delays = <<2000, 4000, 8000, 16000, 30000>>
           /\ agent.ws = "closed" /\ agent.timer = 0

\* the tunnel was lost, five attempts failed and the process has exited
C10_Witness ==
    /\ agent.exit = 1
    /\ agent.outages >= 1
    /\ agent.delays = <<2000, 4000, 8000, 16000, 30000>>

\* C16: for a download_request handled on a readable file the agent sends
\* exactly one file_metadata, before any file_chunk, then file_chunk frames
\* with indices 0, 1, ..., totalChunks-1 in this order, each once, and isLast
\* is true on exactly one frame, the one with index totalChunks-1.  (Checked
\* for the requests whose stream has ended while the tunnel was never lost.)
C16_MetadataThenAscendingChunks ==
    \A d \in DownloadIds :
        LET out == agent.outbox[d]
        IN  (/\ agent.outages = 0
             /\ out # <<>> /\ out[1].type = "file_metadata"
             /\ ~agent.streams[d].active) =>
                /\ Len(out) = out[1].n + 1
                /\ \A k \in 2..Len(out) :
                       /\ out[k].type = "file_chunk"
                       /\ out[k].idx = k - 2
                       /\ out[k].isLast <=> (k - 2 = out[1].n - 1)
                /\ Cardinality({k \in 1..Len(out) : out[k].isLast}) = 1

====
